---- MODULE Spec2Model ----
(***************************************************************************)
(* Model of mobile/create_assets.py: the placeholder asset generator.      *)
(* The script ensures the directory "assets" exists, decodes one embedded  *)
(* base64 PNG and writes it to four named files, printing one line for     *)
(* each file and a final line.  The filesystem is shared state; each       *)
(* invocation of the script is a process.                                  *)
(***************************************************************************)
EXTENDS Integers, Sequences, FiniteSets, TLC

\* Bounds of the model.
MaxRuns == 2        \* invocations made in succession by one process slot
MaxPartial == 1     \* longest short write (in bytes) of a failing flush

Procs == {1, 2}

(***************************************************************************)
(* Line 8: the embedded constant, one character per element.               *)
(***************************************************************************)
green_pixel == <<
    "i", "V", "B", "O", "R", "w", "0", "K", "G", "g", "o", "A", "A", "A", "A", "N",
    "S", "U", "h", "E", "U", "g", "A", "A", "A", "A", "E", "A", "A", "A", "A", "B",
    "C", "A", "Y", "A", "A", "A", "A", "f", "F", "c", "S", "J", "A", "A", "A", "A",
    "D", "U", "l", "E", "Q", "V", "R", "4", "2", "m", "N", "k", "+", "M", "9", "Q",
    "D", "w", "A", "D", "h", "g", "G", "A", "W", "j", "R", "9", "a", "w", "A", "A",
    "A", "A", "B", "J", "R", "U", "5", "E", "r", "k", "J", "g", "g", "g", "=", "=" >>

(***************************************************************************)
(* base64.b64decode (line 11), standard alphabet, validate=False:          *)
(* characters outside the alphabet are discarded, every four characters    *)
(* give three bytes, "=" pads the last group, wrong padding is an error.   *)
(***************************************************************************)
B64Alphabet == <<
    "A", "B", "C", "D", "E", "F", "G", "H", "I", "J", "K", "L", "M", "N", "O", "P",
    "Q", "R", "S", "T", "U", "V", "W", "X", "Y", "Z", "a", "b", "c", "d", "e", "f",
    "g", "h", "i", "j", "k", "l", "m", "n", "o", "p", "q", "r", "s", "t", "u", "v",
    "w", "x", "y", "z", "0", "1", "2", "3", "4", "5", "6", "7", "8", "9", "+", "/" >>

B64Pad == "="

IsB64Char(c) == \E k \in DOMAIN B64Alphabet : B64Alphabet[k] = c

IsB64Pad(c) == c = B64Pad

B64Value(c) == (CHOOSE k \in DOMAIN B64Alphabet : B64Alphabet[k] = c) - 1

\* binascii.Error "Incorrect padding" / "invalid number of data characters"
B64Valid(s) ==
    LET nd == Len(SelectSeq(s, IsB64Char))
        np == Len(SelectSeq(s, IsB64Pad))
    IN  /\ nd % 4 # 1
        /\ (nd % 4 = 2) => np >= 2
        /\ (nd % 4 = 3) => np >= 1

\* Mutant of b64decode: the padding characters are decoded as zero-valued
\* digits instead of shortening the last group.
b64decodePadAsData(s) ==
    LET data == SelectSeq(s, LAMBDA c : IsB64Char(c) \/ IsB64Pad(c))
        val(k) == IF IsB64Char(data[k]) THEN B64Value(data[k]) ELSE 0
        quad(q) == val(4*q + 1) * 262144 + val(4*q + 2) * 4096
                   + val(4*q + 3) * 64 + val(4*q + 4)
        byte(j) == LET n == quad((j - 1) \div 3)
                   IN  CASE (j - 1) % 3 = 0 -> n \div 65536
                         [] (j - 1) % 3 = 1 -> (n \div 256) % 256
                         [] OTHER           -> n % 256
    IN  [j \in 1..(3 * (Len(data) \div 4)) |-> byte(j)]

b64decode(s) ==
    LET data == SelectSeq(s, IsB64Char)
        rem == Len(data) % 4
        nbytes == 3 * (Len(data) \div 4) + (IF rem = 0 THEN 0 ELSE rem - 1)
        val(k) == IF k <= Len(data) THEN B64Value(data[k]) ELSE 0
        quad(q) == val(4*q + 1) * 262144 + val(4*q + 2) * 4096
                   + val(4*q + 3) * 64 + val(4*q + 4)
        byte(j) == LET n == quad((j - 1) \div 3)
                   IN  CASE (j - 1) % 3 = 0 -> n \div 65536
                         [] (j - 1) % 3 = 1 -> (n \div 256) % 256
                         [] OTHER           -> n % 256
    IN  [j \in 1..nbytes |-> byte(j)]

\* The value line 11 computes, evaluated once.
DecodedPixel == b64decode(green_pixel)

(***************************************************************************)
(* Line 14: the declared asset list; line 17: the path and the open mode.  *)
(***************************************************************************)
AssetList == << "icon.png", "splash.png", "adaptive-icon.png", "favicon.png" >>

AssetNames == {AssetList[k] : k \in DOMAIN AssetList}

AssetDir == "assets"

FilePath(name) == AssetDir \o "/" \o name

AssetPaths == {FilePath(n) : n \in AssetNames}

\* A file of the directory that the script does not name.
OtherPaths == {FilePath("notes.txt")}

Paths == AssetPaths \cup OtherPaths

\* Mutant of OpenMode: the file is opened for appending.
OpenModeAppend == "ab"

OpenMode == "wb"

(***************************************************************************)
(* The filesystem: the kind of the entry "assets" and, for every path in   *)
(* it, whether the file exists and its bytes.                              *)
(***************************************************************************)
NoFile == [exists |-> FALSE, data |-> << >>]

File(bytes) == [exists |-> TRUE, data |-> bytes]

\* Mutant of OpenFile: no mode truncates.
OpenFileKeep(f, mode) == File(f.data)

\* open(path, mode): "wb" creates or truncates, "ab" creates or keeps.
OpenFile(f, mode) == IF mode = "wb" THEN File(<< >>) ELSE File(f.data)

\* The bytes of a file after `bytes` are written through a descriptor
\* opened with `mode`: at offset 0 for "wb" (the descriptor's position after
\* open), at the end of the file for "ab".
RawWrite(f, mode, bytes) ==
    IF mode = "wb"
    THEN File([j \in 1..(IF Len(f.data) > Len(bytes) THEN Len(f.data) ELSE Len(bytes))
                 |-> IF j <= Len(bytes) THEN bytes[j] ELSE f.data[j]])
    ELSE File(f.data \o bytes)

(***************************************************************************)
(* os.makedirs('assets', exist_ok=True) (line 5) on an entry of kind       *)
(* "absent", "dir" or "file": mkdir is attempted; when it fails the error  *)
(* is raised unless exist_ok holds and the path is a directory.            *)
(***************************************************************************)
\* Mutant of ExistOk: makedirs called without exist_ok.
ExistOkFalse == FALSE

ExistOk == TRUE

\* Mutant of makedirs: the directory is created only when nothing exists at
\* the path (os.path.exists instead of the isdir test), so a file at the
\* path raises nothing here.
makedirsIfNotExists(kind, denied) ==
    IF kind = "absent"
    THEN IF denied THEN [kind |-> kind, raised |-> TRUE]
                   ELSE [kind |-> "dir", raised |-> FALSE]
    ELSE [kind |-> kind, raised |-> FALSE]

makedirs(kind, denied) ==
    IF kind = "absent" /\ ~denied
    THEN [kind |-> "dir", raised |-> FALSE]
    ELSE [kind |-> kind, raised |-> ~(ExistOk /\ kind = "dir")]

VARIABLES
    assetsKind,   \* the entry "assets": "absent", "dir" or "file"
    mkdirDenied,  \* the working directory refuses mkdir
    files,        \* [Paths -> file]
    assets,       \* the asset list of line 14
    pc,           \* [Procs -> position in the script]
    i,            \* [Procs -> index of the loop of line 16]
    pixel_data,   \* [Procs -> the bytes of line 11]
    buf,          \* [Procs -> bytes held by the buffered writer f]
    output,       \* [Procs -> lines printed by the current run]
    err,          \* [Procs -> the step that raised, or "none"]
    runs,         \* [Procs -> runs started]
    opened,       \* [Procs -> names opened by the current run, in order]
    closed,       \* [Procs -> names closed by the current run, in order]
    kind0,        \* assetsKind when the current run started
    files0        \* files when the current run started

vars == << assetsKind, mkdirDenied, files, assets, pc, i, pixel_data, buf,
           output, err, runs, opened, closed, kind0, files0 >>

\* Mutant of asset: every iteration uses the first element of the list.
assetFirst(p) == assets[1]

\* The loop variable of line 16 and the path of line 17.
asset(p) == assets[i[p]]

path(p) == FilePath(asset(p))

CreatedLine(name) == "Created " \o name

SuccessLine == "All placeholder assets created successfully!"

(***************************************************************************)
(* The filesystems a run may start from.  Every asset file is absent,      *)
(* shorter than the payload, longer than it, or of its length with another *)
(* first byte; the unnamed file is absent or holds one byte.               *)
(***************************************************************************)
PriorContents ==
    { NoFile,
      File(<< 1, 2 >>),
      File(DecodedPixel \o << 0 >>),
      File([DecodedPixel EXCEPT ![1] = 0]) }

OtherContents == { NoFile, File(<< 7 >>) }

PriorsOver(contents) ==
    UNION { { [q \in Paths |-> IF q \in AssetPaths THEN a[q] ELSE o]
              : a \in [AssetPaths -> contents] } : o \in OtherContents }

FullPriors == PriorsOver(PriorContents)

TwoKindPriors == PriorsOver({ NoFile, File(DecodedPixel \o << 0 >>) })

UniformPriors ==
    { [q \in Paths |-> IF q \in AssetPaths THEN c ELSE o]
      : c \in PriorContents, o \in OtherContents }

EmptyDir == [q \in Paths |-> NoFile]

\* Every order of the four names.
AssetOrders ==
    { s \in [DOMAIN AssetList -> AssetNames] :
        \A n \in AssetNames : \E k \in DOMAIN AssetList : s[k] = n }

InitWith(orders, priors, started) ==
    /\ assets \in orders
    /\ assetsKind \in {"absent", "dir", "file"}
    /\ mkdirDenied \in (IF assetsKind = "absent" THEN BOOLEAN ELSE {FALSE})
    /\ files \in (IF assetsKind = "dir" THEN priors ELSE {EmptyDir})
    /\ pc = [p \in Procs |-> IF p \in started THEN "makedirs" ELSE "off"]
    /\ i = [p \in Procs |-> 1]
    /\ pixel_data = [p \in Procs |-> << >>]
    /\ buf = [p \in Procs |-> << >>]
    /\ output = [p \in Procs |-> << >>]
    /\ err = [p \in Procs |-> "none"]
    /\ runs = [p \in Procs |-> IF p \in started THEN 1 ELSE 0]
    /\ opened = [p \in Procs |-> << >>]
    /\ closed = [p \in Procs |-> << >>]
    /\ kind0 = assetsKind
    /\ files0 = files

Init == InitWith({AssetList}, FullPriors, {1})

InitConc == InitWith({AssetList}, UniformPriors, Procs)

InitPerm == InitWith(AssetOrders, TwoKindPriors, {1})

\* An unhandled exception at `step`: the traceback ends the process.
Raise(p, step) ==
    /\ err' = [err EXCEPT ![p] = step]
    /\ pc' = [pc EXCEPT ![p] = "failed"]

\* Line 5.
Makedirs(p) ==
    /\ pc[p] = "makedirs"
    /\ LET r == makedirs(assetsKind, mkdirDenied)
       IN  /\ assetsKind' = r.kind
           /\ IF r.raised
              THEN Raise(p, "makedirs")
              ELSE /\ pc' = [pc EXCEPT ![p] = "decode"]
                   /\ err' = err
    /\ UNCHANGED << mkdirDenied, files, assets, i, pixel_data, buf, output,
                    runs, opened, closed, kind0, files0 >>

\* Lines 8-14.
Decode(p) ==
    /\ pc[p] = "decode"
    /\ IF B64Valid(green_pixel)
       THEN /\ pixel_data' = [pixel_data EXCEPT ![p] = b64decode(green_pixel)]
            /\ pc' = [pc EXCEPT ![p] = "open"]
            /\ err' = err
       ELSE /\ Raise(p, "decode")
            /\ pixel_data' = pixel_data
    /\ i' = [i EXCEPT ![p] = 1]
    /\ UNCHANGED << assetsKind, mkdirDenied, files, assets, buf, output,
                    runs, opened, closed, kind0, files0 >>

\* Line 17, open(..., 'wb') succeeds: the file is created or truncated.
Open(p) ==
    /\ pc[p] = "open"
    /\ assetsKind = "dir"
    /\ files' = [files EXCEPT ![path(p)] = OpenFile(@, OpenMode)]
    /\ buf' = [buf EXCEPT ![p] = << >>]
    /\ opened' = [opened EXCEPT ![p] = Append(@, asset(p))]
    /\ pc' = [pc EXCEPT ![p] = "write"]
    /\ UNCHANGED << assetsKind, mkdirDenied, assets, i, pixel_data, output,
                    err, runs, closed, kind0, files0 >>

\* Mutant of OpenFail: the error is swallowed and the loop goes on with the
\* next asset.
OpenFailContinue(p) ==
    /\ pc[p] = "open"
    /\ err' = [err EXCEPT ![p] = "open"]
    /\ IF i[p] < Len(assets)
       THEN /\ i' = [i EXCEPT ![p] = @ + 1]
            /\ pc' = pc
       ELSE /\ i' = i
            /\ pc' = [pc EXCEPT ![p] = "success"]
    /\ UNCHANGED << assetsKind, mkdirDenied, files, assets, pixel_data, buf,
                    output, runs, opened, closed, kind0, files0 >>

\* Line 17, open raises (permission denied, no such directory, ...): the
\* file is left as it was.
OpenFail(p) ==
    /\ pc[p] = "open"
    /\ Raise(p, "open")
    /\ UNCHANGED << assetsKind, mkdirDenied, files, assets, i, pixel_data,
                    buf, output, runs, opened, closed, kind0, files0 >>

\* Line 18: f.write hands the bytes to the buffered writer.
Write(p) ==
    /\ pc[p] = "write"
    /\ buf' = [buf EXCEPT ![p] = @ \o pixel_data[p]]
    /\ pc' = [pc EXCEPT ![p] = "close"]
    /\ UNCHANGED << assetsKind, mkdirDenied, files, assets, i, pixel_data,
                    output, err, runs, opened, closed, kind0, files0 >>

\* Leaving the with block of line 17: the buffer is flushed to the file and
\* the file is closed.
Close(p) ==
    /\ pc[p] = "close"
    /\ files' = [files EXCEPT ![path(p)] = RawWrite(@, OpenMode, buf[p])]
    /\ buf' = [buf EXCEPT ![p] = << >>]
    /\ closed' = [closed EXCEPT ![p] = Append(@, asset(p))]
    /\ pc' = [pc EXCEPT ![p] = "print"]
    /\ UNCHANGED << assetsKind, mkdirDenied, assets, i, pixel_data, output,
                    err, runs, opened, kind0, files0 >>

\* The flush raises (disk full, I/O error) after k bytes reached the file.
CloseFail(p) ==
    /\ pc[p] = "close"
    /\ \E k \in 0..MaxPartial :
         /\ k < Len(buf[p])
         /\ files' = [files EXCEPT
                        ![path(p)] = RawWrite(@, OpenMode, SubSeq(buf[p], 1, k))]
    /\ buf' = [buf EXCEPT ![p] = << >>]
    /\ Raise(p, "close")
    /\ UNCHANGED << assetsKind, mkdirDenied, assets, i, pixel_data, output,
                    runs, opened, closed, kind0, files0 >>

\* Mutant of LastAsset: the loop ends one asset early.
LastAssetEarly(p) == i[p] = Len(assets) - 1

\* Line 16: the loop is at the last element of the list.
LastAsset(p) == i[p] = Len(assets)

\* Line 19, then line 16 takes the next asset or leaves the loop.
PrintCreated(p) ==
    /\ pc[p] = "print"
    /\ output' = [output EXCEPT ![p] = Append(@, CreatedLine(asset(p)))]
    /\ IF LastAsset(p)
       THEN /\ pc' = [pc EXCEPT ![p] = "success"]
            /\ i' = i
       ELSE /\ pc' = [pc EXCEPT ![p] = "open"]
            /\ i' = [i EXCEPT ![p] = @ + 1]
    /\ UNCHANGED << assetsKind, mkdirDenied, files, assets, pixel_data, buf,
                    err, runs, opened, closed, kind0, files0 >>

\* Line 21.
PrintSuccess(p) ==
    /\ pc[p] = "success"
    /\ output' = [output EXCEPT ![p] = Append(@, SuccessLine)]
    /\ pc' = [pc EXCEPT ![p] = "done"]
    /\ UNCHANGED << assetsKind, mkdirDenied, files, assets, i, pixel_data,
                    buf, err, runs, opened, closed, kind0, files0 >>

\* The script is invoked again after a run that succeeded: a new process
\* starts at line 1 on the filesystem the runs so far have left.
Rerun(p) ==
    /\ pc[p] = "done"
    /\ runs[p] < MaxRuns
    /\ runs' = [runs EXCEPT ![p] = @ + 1]
    /\ pc' = [pc EXCEPT ![p] = "makedirs"]
    /\ i' = [i EXCEPT ![p] = 1]
    /\ pixel_data' = [pixel_data EXCEPT ![p] = << >>]
    /\ buf' = [buf EXCEPT ![p] = << >>]
    /\ output' = [output EXCEPT ![p] = << >>]
    /\ opened' = [opened EXCEPT ![p] = << >>]
    /\ closed' = [closed EXCEPT ![p] = << >>]
    /\ kind0' = assetsKind
    /\ files0' = files
    /\ UNCHANGED << assetsKind, mkdirDenied, files, assets, err >>

Next ==
    \E p \in Procs :
        \/ Makedirs(p)
        \/ Decode(p)
        \/ Open(p)
        \/ OpenFail(p)
        \/ Write(p)
        \/ Close(p)
        \/ CloseFail(p)
        \/ PrintCreated(p)
        \/ PrintSuccess(p)
        \/ Rerun(p)

\* One invocation at a time, from the declared list.
Spec == Init /\ [][Next]_vars

\* Two invocations at once on the same directory.
SpecConc == InitConc /\ [][Next]_vars

\* One invocation at a time, the list of line 14 in any order.
SpecPerm == InitPerm /\ [][Next]_vars

(***************************************************************************)
(* Helpers of the properties.                                              *)
(***************************************************************************)
Payload == File(DecodedPixel)

IsPrefix(s, t) == Len(s) <= Len(t) /\ \A k \in 1..Len(s) : s[k] = t[k]

Existing(fs) == {q \in Paths : fs[q].exists}

\* Lines 17-18 as a whole on one file of the filesystem fs.
WriteAsset(fs, name) ==
    [fs EXCEPT ![FilePath(name)] =
        RawWrite(OpenFile(@, OpenMode), OpenMode, b64decode(green_pixel))]

\* Lines 16-18 on the list `order`, from its element k on.
RECURSIVE RunFrom(_, _, _)
RunFrom(order, k, fs) ==
    IF k > Len(order) THEN fs
    ELSE RunFrom(order, k + 1, WriteAsset(fs, order[k]))

\* The lines a run of the declared list prints when nothing fails.
ExpectedOutput ==
    [k \in 1..(Len(AssetList) + 1) |->
        IF k <= Len(AssetList) THEN CreatedLine(AssetList[k]) ELSE SuccessLine]

\* Process p has executed line 11.
Decoded(p) ==
    \/ pc[p] \in {"open", "write", "close", "print", "success", "done"}
    \/ pc[p] = "failed" /\ err[p] \in {"open", "close"}

\* The directory could not be created when the current run started.
CannotCreate == kind0 = "file" \/ (kind0 = "absent" /\ mkdirDenied)

Printed(p, name) == \E k \in 1..Len(output[p]) : output[p][k] = CreatedLine(name)

\* Process q has opened `name` and not closed it with its bytes written: it
\* is between open and close, or its flush raised.
Reopening(q, name) ==
    /\ Len(opened[q]) > 0
    /\ opened[q][Len(opened[q])] = name
    /\ \/ pc[q] \in {"write", "close"}
       \/ pc[q] = "failed" /\ err[q] = "close"

(***************************************************************************)
(* C1: after a run that completes without error every one of the four      *)
(* files assets/<name> exists and holds exactly the decoded payload,       *)
(* whatever it held before the run (absent, shorter, longer, different).   *)
(***************************************************************************)
C1_PayloadAfterRun ==
    \A p \in Procs :
        pc[p] = "done" =>
            \A n \in AssetNames : files[FilePath(n)] = Payload

C1_Witness ==
    /\ pc[1] = "done"
    /\ runs[1] = 1
    /\ ~files0[FilePath("icon.png")].exists
    /\ Len(files0[FilePath("splash.png")].data) < Len(DecodedPixel)
    /\ files0[FilePath("splash.png")].exists
    /\ Len(files0[FilePath("adaptive-icon.png")].data) > Len(DecodedPixel)
    /\ Len(files0[FilePath("favicon.png")].data) = Len(DecodedPixel)
    /\ files0[FilePath("favicon.png")] # Payload

(***************************************************************************)
(* C2: when the directory assets cannot be created (a non-directory file   *)
(* is at the path, or creation is denied) the run ends with an error at    *)
(* the directory step: no asset file is created and no line is printed.    *)
(***************************************************************************)
C2_DirectoryFailure ==
    \A p \in Procs :
        (CannotCreate /\ pc[p] \notin {"off", "makedirs"}) =>
            /\ pc[p] = "failed"
            /\ err[p] = "makedirs"
            /\ output[p] = << >>
            /\ opened[p] = << >>
            /\ \A q \in AssetPaths : ~files[q].exists
            /\ assetsKind = kind0

C2_Witness ==
    /\ kind0 = "file"
    /\ pc[1] = "failed"
    /\ err[1] = "makedirs"

(***************************************************************************)
(* C3: a run changes nothing but the directory assets (created only when   *)
(* absent) and the four named files: every other file keeps its existence  *)
(* and content, an existing directory is accepted without error, and after *)
(* a successful run the files of assets are the prior ones plus the four.  *)
(***************************************************************************)
C3_Frame ==
    /\ \A q \in OtherPaths : files[q] = files0[q]
    /\ assetsKind = kind0 \/ (kind0 = "absent" /\ assetsKind = "dir")
    /\ \A p \in Procs :
        /\ (kind0 = "dir") => err[p] # "makedirs"
        /\ pc[p] = "done" =>
            /\ Existing(files) = Existing(files0) \cup AssetPaths
            /\ Existing(files0) = {} => Cardinality(Existing(files)) = Len(AssetList)

C3_Witness ==
    /\ pc[1] = "done"
    /\ runs[1] = 1
    /\ kind0 = "dir"
    /\ \E q \in OtherPaths : files0[q].exists /\ files[q] = files0[q]
    /\ \E q \in AssetPaths : files0[q].exists

(***************************************************************************)
(* C4: when writing asset number N fails the run stops there, with no      *)
(* retry and no rollback: assets 1..N-1 hold the payload, assets N+1..4    *)
(* are never opened and stay as before the run, exactly N-1 Created lines  *)
(* are printed and the success line is not.                                *)
(***************************************************************************)
C4_WriteFailure ==
    \A p \in Procs :
        err[p] \in {"open", "close"} =>
            /\ pc[p] = "failed"
            /\ \A k \in DOMAIN assets :
                /\ k < i[p] => files[FilePath(assets[k])] = Payload
                /\ k > i[p] =>
                    /\ files[FilePath(assets[k])] = files0[FilePath(assets[k])]
                    /\ \A j \in 1..Len(opened[p]) : opened[p][j] # assets[k]
            /\ output[p] = [k \in 1..(i[p] - 1) |-> CreatedLine(assets[k])]

C4_Witness ==
    /\ pc[1] = "failed"
    /\ err[1] = "close"
    /\ i[1] = 3
    /\ Len(output[1]) = 2
    /\ files0[FilePath("favicon.png")].exists
    /\ files[FilePath("favicon.png")] # Payload

(***************************************************************************)
(* C5: running the generator twice in succession, both runs succeeding,    *)
(* leaves each of the four files with the same bytes after the second run  *)
(* as after the first.                                                     *)
(***************************************************************************)
C5_Idempotent ==
    \A p \in Procs :
        (pc[p] = "done" /\ runs[p] >= 2) =>
            \A q \in AssetPaths : files[q] = files0[q]

C5_Witness ==
    /\ pc[1] = "done"
    /\ runs[1] = 2
    /\ Len(output[1]) = Len(AssetList) + 1

(***************************************************************************)
(* C6: the console output of a run is a prefix of the four Created lines   *)
(* in list order followed by the success line; Created <name> is printed   *)
(* only after assets/<name> is fully written and closed and before the     *)
(* next file is opened; the success line is printed exactly when all four  *)
(* writes succeeded.                                                       *)
(***************************************************************************)
C6_OutputOrder ==
    \A p \in Procs :
        /\ IsPrefix(output[p], ExpectedOutput)
        /\ \A k \in 1..Len(output[p]) :
            k <= Len(AssetList) =>
                /\ k <= Len(closed[p])
                /\ closed[p][k] = AssetList[k]
                /\ files[FilePath(AssetList[k])] = Payload
        /\ Len(opened[p]) <= Len(output[p]) + 1
        /\ Len(closed[p]) <= Len(output[p]) + 1
        /\ (Len(output[p]) = Len(ExpectedOutput)) <=> (pc[p] = "done")
        /\ pc[p] = "done" => closed[p] = AssetList

C6_Witness ==
    /\ pc[1] = "done"
    /\ output[1] = ExpectedOutput

(***************************************************************************)
(* C7: when two processes run the generator concurrently on the same       *)
(* directory, in every interleaving of their steps in which both complete  *)
(* without error all four files hold exactly the payload at the end.       *)
(***************************************************************************)
C7_BothDone ==
    (\A p \in Procs : pc[p] = "done") =>
        \A n \in AssetNames : files[FilePath(n)] = Payload

C7_Witness ==
    /\ \A p \in Procs : pc[p] = "done" /\ runs[p] = 1
    /\ \A q \in AssetPaths : Len(files0[q].data) > Len(DecodedPixel)

(***************************************************************************)
(* C8 as stated: decoding green_pixel yields a byte sequence of length     *)
(* exactly 67, so after a successful run each asset file has 67 bytes.     *)
(***************************************************************************)
C8_Length67 ==
    \A p \in Procs :
        /\ Decoded(p) => Len(pixel_data[p]) = 67
        /\ pc[p] = "done" =>
            \A q \in AssetPaths : Len(files[q].data) = 67

(***************************************************************************)
(* C8 as amended: decoding green_pixel yields one fixed byte sequence of   *)
(* length exactly 70 (it starts with the PNG signature), so after a        *)
(* successful run each asset file has 70 bytes.                            *)
(***************************************************************************)
C8_Length70 ==
    \A p \in Procs :
        /\ Decoded(p) =>
            /\ Len(pixel_data[p]) = 70
            /\ SubSeq(pixel_data[p], 1, 8) = << 137, 80, 78, 71, 13, 10, 26, 10 >>
        /\ pc[p] = "done" =>
            \A q \in AssetPaths : files[q].exists /\ Len(files[q].data) = 70

C8_Witness ==
    /\ pc[1] = "done"
    /\ Len(pixel_data[1]) = 70
    /\ \A q \in AssetPaths : Len(files[q].data) = 70

(***************************************************************************)
(* C9: the order of the four names has no effect on the final filesystem:  *)
(* for every permutation of the list, a successful run ends in the         *)
(* filesystem that a run of the declared list ends in from the same start. *)
(***************************************************************************)
C9_OrderIrrelevant ==
    \A p \in Procs :
        pc[p] = "done" =>
            /\ files = RunFrom(AssetList, 1, files0)
            /\ assetsKind = "dir"

C9_Witness ==
    /\ pc[1] = "done"
    /\ runs[1] = 1
    /\ assets[1] = "favicon.png"
    /\ assets[4] = "icon.png"
    /\ files0[FilePath("favicon.png")].exists
    /\ ~files0[FilePath("icon.png")].exists

(***************************************************************************)
(* C10 as stated: with two processes on the same directory, in every state *)
(* after either has printed Created <name>, assets/<name> holds exactly    *)
(* the payload (never empty or partial).                                   *)
(***************************************************************************)
C10_CreatedStable ==
    \A p \in Procs : \A n \in AssetNames :
        Printed(p, n) => files[FilePath(n)] = Payload

(***************************************************************************)
(* C10 as amended: after a process has printed Created <name>, the file    *)
(* assets/<name> exists and holds a prefix of the payload; it holds the    *)
(* whole payload unless the other process has re-opened it with truncation *)
(* and not completed its write (it is between open and close, or its       *)
(* flush failed).                                                          *)
(***************************************************************************)
C10_CreatedPrefix ==
    \A p \in Procs : \A n \in AssetNames :
        Printed(p, n) =>
            /\ files[FilePath(n)].exists
            /\ IsPrefix(files[FilePath(n)].data, DecodedPixel)
            /\ \/ files[FilePath(n)] = Payload
               \/ \E q \in Procs \ {p} : Reopening(q, n)

C10_Witness ==
    /\ Printed(1, "icon.png")
    /\ files[FilePath("icon.png")] = File(<< >>)
    /\ Reopening(2, "icon.png")

====
